---- MODULE Spec2Model ----
(***************************************************************************)
(* Model of the Pokedex API server (src/pokedex_api/src/main.rs): the two  *)
(* warp handlers get_pokemon and get_translated_pokemon, the two shared    *)
(* Mutex<HashMap> caches, and the calls to PokeAPI and to the Fun          *)
(* Translations API.  Requests are served concurrently by a bounded number *)
(* of tasks.  A step of a task is one critical section of a cache mutex,    *)
(* or the return of an awaited upstream call together with what the        *)
(* handler does with it up to the end of its next critical section.        *)
(***************************************************************************)
EXTENDS Naturals, Sequences, FiniteSets, TLC

\* ------------------------------------------------------------------ bounds

\* Number of requests the server handles at the same time.
MaxReq == 2

Reqs == 1..MaxReq

\* ------------------------------------------------------- program constants

StatusOK == 200
StatusNotFound == 404
StatusTooManyRequests == 429

\* Option<T>: None is the empty sequence, Some(v) the one-element sequence.
None == <<>>
Some(v) == <<v>>
is_some(o) == o # None
unwrap(o) == o[1]

\* --------------------------------------------------------------- texts
\* A text is a sequence of characters (one-character strings).

LF == "\n"
FF == "\f"
TAB == "\t"
CR == "\r"
SP == " "

\* str::replace for a one-character pattern and a one-character replacement.
replace_char(s, from, to) == [i \in 1..Len(s) |-> IF s[i] = from THEN to ELSE s[i]]

\* str::replace("  ", " "): non-overlapping matches, left to right.
RECURSIVE replace_double_space(_)
replace_double_space(s) ==
    IF Len(s) < 2 THEN s
    ELSE IF s[1] = SP /\ s[2] = SP
         THEN <<SP>> \o replace_double_space(SubSeq(s, 3, Len(s)))
         ELSE <<s[1]>> \o replace_double_space(Tail(s))

\* ------------------------------------------------------- upstream: PokeAPI

\* What PokeAPI holds for the names it knows: the pokemon's name and its
\* species' flavor text entries, habitat (null for some species) and flag.
\* Flavor texts are free text: they carry line feeds, form feeds, and one
\* of them a tab.  A species may have no English entry.
Pokedex ==
    [pikachu |->
        [name |-> "pikachu",
         flavor_text_entries |->
            << [language |-> "en", flavor_text |-> <<"W", LF, "g", FF, "s", TAB, "t">>],
               [language |-> "en", flavor_text |-> <<"I", "t">>] >>,
         habitat |-> Some("forest"),
         is_legendary |-> FALSE],
     zubat |->
        [name |-> "zubat",
         flavor_text_entries |->
            << [language |-> "zh-Hant", flavor_text |-> <<"Z", "h">>],
               [language |-> "en", flavor_text |-> <<"F", LF, "U">>] >>,
         habitat |-> Some("cave"),
         is_legendary |-> FALSE],
     mewtwo |->
        [name |-> "mewtwo",
         flavor_text_entries |->
            << [language |-> "en", flavor_text |-> <<"I", SP, "c">>] >>,
         habitat |-> Some("rare"),
         is_legendary |-> TRUE],
     snivy |->
        [name |-> "snivy",
         flavor_text_entries |->
            << [language |-> "en", flavor_text |-> <<"C">>] >>,
         habitat |-> None,
         is_legendary |-> FALSE],
     ditto |->
        [name |-> "ditto",
         flavor_text_entries |->
            << [language |-> "ja", flavor_text |-> <<"J">>],
               [language |-> "fr", flavor_text |-> <<"M", LF>>] >>,
         habitat |-> Some("urban"),
         is_legendary |-> FALSE]]

\* The names a client asks for one request at a time: known ones and one
\* PokeAPI does not know.
Names == {"pikachu", "zubat", "mewtwo", "snivy", "NoPokemon"}

\* The names asked for by the clients that send requests at the same time:
\* two names PokeAPI knows in full.
ConcurrentNames == {"zubat", "mewtwo"}

\* The name asked for by the clients whose requests contend for the mutexes.
LockNames == {"zubat"}

\* The name asked for by the clients of the species without English entry.
DescribedNames == {"ditto"}

\* What the two PokeAPI calls of one fetch can come back with: the pokemon
\* lookup fails (unknown name, or any transport error), the species lookup
\* fails, or both succeed.
PokeApiOutcomes(pokemon_name) ==
    {[kind |-> "get_by_name_err"]}
    \cup (IF pokemon_name \in DOMAIN Pokedex
          THEN {[kind |-> "follow_err"],
                [kind |-> "found", data |-> Pokedex[pokemon_name]]}
          ELSE {})

\* Result<T, E> of a call whose unwrap()s may panic.
Ok(v) == [tag |-> "Ok", value |-> v]
Err == [tag |-> "Err"]
Panic == [tag |-> "Panic"]

\* Faulty variant: the scan does not break, the last English entry wins.
RECURSIVE get_english_description_last(_)
get_english_description_last(language_array) ==
    IF language_array = <<>> THEN <<>>
    ELSE LET rest == get_english_description_last(Tail(language_array)) IN
         IF rest # <<>> THEN rest
         ELSE IF Head(language_array).language = "en"
              THEN Head(language_array).flavor_text
              ELSE <<>>

RECURSIVE get_english_description(_)
get_english_description(language_array) ==
    IF language_array = <<>> THEN <<>>
    ELSE IF Head(language_array).language = "en"
         THEN Head(language_array).flavor_text
         ELSE get_english_description(Tail(language_array))

fetch_pokemon_from_api(outcome) ==
    IF outcome.kind = "get_by_name_err" THEN Err
    ELSE IF outcome.kind = "follow_err" THEN Panic
    ELSE LET species == outcome.data
             d0 == get_english_description(species.flavor_text_entries)
             d1 == replace_char(d0, LF, SP)
             d2 == replace_char(d1, FF, SP)
         IN  IF ~is_some(species.habitat) THEN Panic
             ELSE Ok([name |-> species.name,
                      description |-> d2,
                      habitat |-> unwrap(species.habitat),
                      is_legendary |-> species.is_legendary])

\* ---------------------------------------------- upstream: Fun Translations

\* The text the service answers with for a style and an input text; the
\* answers carry runs of two spaces.
YodaText(text) == text \o <<SP, SP, "y">>
ShakespeareText(text) == <<"s", SP, SP>> \o text

\* How one call to the service can end.
TranslationOutcomes ==
    {"translated", "rate_limited", "send_error", "error_status", "not_json"}

fetch_translation(translated, outcome) ==
    IF outcome = "send_error" THEN Err
    ELSE IF outcome = "rate_limited" THEN Err
    ELSE IF outcome = "not_json" THEN Panic
    ELSE IF outcome = "error_status" THEN Panic
    ELSE Ok(replace_double_space(translated))

fetch_yoda_translation_from_api(pokemon_description, outcome) ==
    fetch_translation(YodaText(pokemon_description), outcome)

fetch_shakespeare_translation_from_api(pokemon_description, outcome) ==
    fetch_translation(ShakespeareText(pokemon_description), outcome)

\* Faulty variant: both conditions are required for Yoda.
get_translation_style_both(pokemon_habitat, pokemon_is_legendary) ==
    IF pokemon_habitat = "cave" /\ pokemon_is_legendary = TRUE
    THEN "yoda" ELSE "shakespeare"

\* get_translation's choice of the service to call.
get_translation_style(pokemon_habitat, pokemon_is_legendary) ==
    IF pokemon_habitat = "cave" \/ pokemon_is_legendary = TRUE
    THEN "yoda" ELSE "shakespeare"

get_translation(pokemon_description, pokemon_habitat, pokemon_is_legendary, outcome) ==
    IF get_translation_style(pokemon_habitat, pokemon_is_legendary) = "yoda"
    THEN fetch_yoda_translation_from_api(pokemon_description, outcome)
    ELSE fetch_shakespeare_translation_from_api(pokemon_description, outcome)

\* ----------------------------------------------------------- JSON values

\* Display of a serde_json Value that is a string: its JSON text, quoted.
value_to_string(v) == "\"" \o v \o "\""

\* Faulty variant: the reply is rebuilt field by field, the habitat from its
\* to_string().
set_description_rebuilt(pokemon_value, text) ==
    [name |-> pokemon_value.name,
     description |-> text,
     habitat |-> "\"" \o pokemon_value.habitat \o "\"",
     is_legendary |-> pokemon_value.is_legendary]

\* pokemon.get_mut("description") = json!(text)
set_description(pokemon_value, text) ==
    [pokemon_value EXCEPT !.description = text]

\* --------------------------------------------------------------- HashMap

contains_key(cache, key) == key \in DOMAIN cache

\* Faulty variant: the value is never stored.
insert_dropped(cache, key, value) == cache

\* Faulty variant: the map holds one entry; an insert evicts the others.
insert_evicting(cache, key, value) == [k \in {key} |-> value]

insert(cache, key, value) ==
    [k \in DOMAIN cache \cup {key} |-> IF k = key THEN value ELSE cache[k]]

\* Faulty variant: the lookup returns the cached value without its
\* description.
get_pokemon_from_cache_partial(pokemon_name, cache) ==
    IF contains_key(cache, pokemon_name)
    THEN Some([cache[pokemon_name] EXCEPT !.description = <<>>])
    ELSE None

get_pokemon_from_cache(pokemon_name, cache) ==
    IF contains_key(cache, pokemon_name) THEN Some(cache[pokemon_name]) ELSE None

\* Faulty variant: the translation cache is never hit.
get_translation_from_cache_none(pokemon_name, cache) == None

get_translation_from_cache(pokemon_name, cache) ==
    IF contains_key(cache, pokemon_name) THEN Some(cache[pokemon_name]) ELSE None

EmptyMap == [k \in {} |-> None]

\* ----------------------------------------------------------------- Mutex
\* A mutex is the set of the tasks holding it.  A critical section of task
\* r runs when the mutex is free or r has taken it in an earlier step, and
\* ends with the guard dropped.

lock(mutex, r) == mutex \cup {r}
drop(mutex, r) == mutex \ {r}

\* ----------------------------------------------------------------- state

VARIABLES
    pokemon_cache,          \* main's pokemon_cache: name -> profile value
    translation_cache,      \* main's translation_cache: name -> translated text
    lock_pokemon,           \* the tasks holding pokemon_cache's mutex
    lock_translation,       \* the tasks holding translation_cache's mutex
    pc,                     \* where each task is
    handler,                \* the handler each task runs
    pokemon_name_to_search, \* the handler's path parameter
    pokemon,                \* get_translated_pokemon's local pokemon value
    reply,                  \* the reply the handler returned
    calls,                  \* upstream calls the task's request has made
    inserts,                \* cache inserts the task's request has made
    style,                  \* the translation service the request called
    answers,                \* what the upstream calls of the request came back with
    history                 \* a sequential client's record of earlier replies

vars == <<pokemon_cache, translation_cache, lock_pokemon, lock_translation,
          pc, handler, pokemon_name_to_search, pokemon, reply, calls, inserts,
          style, answers, history>>

cachevars == <<pokemon_cache, translation_cache>>
lockvars == <<lock_pokemon, lock_translation>>

Handlers == {"get_pokemon", "get_translated_pokemon"}

NoCalls == [profile |-> 0, translation |-> 0]
NoInserts == [pokemon |-> 0, translation |-> 0]
NoAnswers == [profile |-> "none", translation |-> "none"]
NoHistory == [get_pokemon |-> None, get_translated_pokemon |-> None,
              not_found |-> FALSE, rate_limited |-> FALSE]

json_reply(status, body) == Some([status |-> status, body |-> body])

Init ==
    /\ pokemon_cache = EmptyMap
    /\ translation_cache = EmptyMap
    /\ lock_pokemon = {}
    /\ lock_translation = {}
    /\ pc = [r \in Reqs |-> "idle"]
    /\ handler = [r \in Reqs |-> "none"]
    /\ pokemon_name_to_search = [r \in Reqs |-> ""]
    /\ pokemon = [r \in Reqs |-> None]
    /\ reply = [r \in Reqs |-> None]
    /\ calls = [r \in Reqs |-> NoCalls]
    /\ inserts = [r \in Reqs |-> NoInserts]
    /\ style = [r \in Reqs |-> None]
    /\ answers = [r \in Reqs |-> NoAnswers]
    /\ history = [n \in Names |-> NoHistory]

\* ------------------------------------------------------- a request arrives

\* warp dispatches GET /pokemon/<name> or GET /translated/<name> to a task.
Request(r, h, name) ==
    /\ pc[r] = "idle"
    /\ pc' = [pc EXCEPT ![r] = IF h = "get_pokemon" THEN "gp_check" ELSE "gt_check"]
    /\ handler' = [handler EXCEPT ![r] = h]
    /\ pokemon_name_to_search' = [pokemon_name_to_search EXCEPT ![r] = name]
    /\ UNCHANGED <<cachevars, lockvars, pokemon, reply, calls, inserts, style,
                   answers, history>>

\* A panic unwinds the task.
panic(r) ==
    /\ pc' = [pc EXCEPT ![r] = "panicked"]
    /\ UNCHANGED <<cachevars, lockvars, pokemon, reply, calls, inserts, style>>

\* ------------------------------------------------------------ get_pokemon

\* The key is in the cache: reply with the cached value.
gp_hit(r) ==
    /\ reply' = [reply EXCEPT ![r] =
            json_reply(StatusOK, pokemon_cache[pokemon_name_to_search[r]])]
    /\ pc' = [pc EXCEPT ![r] = "done"]
    /\ UNCHANGED <<cachevars, pokemon, calls, inserts, style>>

\* The key is not in the cache: call fetch_pokemon_from_api and await it.
gp_miss(r) ==
    /\ calls' = [calls EXCEPT ![r].profile = @ + 1]
    /\ pc' = [pc EXCEPT ![r] = "gp_fetch"]
    /\ UNCHANGED <<cachevars, pokemon, reply, inserts, style>>

\* Faulty variant: the guard is not scoped to the lookup block and lives on
\* after a miss.
gp_check_guard_kept(r) ==
    /\ pc[r] = "gp_check"
    /\ lock_pokemon \subseteq {r}
    /\ IF contains_key(pokemon_cache, pokemon_name_to_search[r])
       THEN gp_hit(r) /\ lock_pokemon' = drop(lock(lock_pokemon, r), r)
       ELSE gp_miss(r) /\ lock_pokemon' = lock(lock_pokemon, r)
    /\ UNCHANGED <<lock_translation, handler, pokemon_name_to_search, answers,
                   history>>

\* The lookup block, under the cache's mutex.
gp_check(r) ==
    /\ pc[r] = "gp_check"
    /\ lock_pokemon \subseteq {r}
    /\ lock_pokemon' = drop(lock(lock_pokemon, r), r)
    /\ IF contains_key(pokemon_cache, pokemon_name_to_search[r])
       THEN gp_hit(r)
       ELSE gp_miss(r)
    /\ UNCHANGED <<lock_translation, handler, pokemon_name_to_search, answers,
                   history>>

\* Faulty variant: the failure is cached under the name.
gp_not_found_cached(r) ==
    /\ pokemon_cache' = insert(pokemon_cache, pokemon_name_to_search[r],
                               [error |-> "Pokemon not found"])
    /\ reply' = [reply EXCEPT ![r] =
            json_reply(StatusNotFound, [error |-> "Pokemon not found"])]
    /\ pc' = [pc EXCEPT ![r] = "done"]
    /\ UNCHANGED <<translation_cache, lockvars, pokemon, calls, inserts, style>>

\* pokemon.is_err(): reply 404.
gp_not_found(r) ==
    /\ reply' = [reply EXCEPT ![r] =
            json_reply(StatusNotFound, [error |-> "Pokemon not found"])]
    /\ pc' = [pc EXCEPT ![r] = "done"]
    /\ UNCHANGED <<cachevars, lockvars, pokemon, calls, inserts, style>>

\* Faulty variant: when another request has inserted the key meanwhile, the
\* second insert leaves an entry that is neither request's value.
gp_insert_torn(r, value) ==
    /\ lock_pokemon \subseteq {r}
    /\ lock_pokemon' = drop(lock(lock_pokemon, r), r)
    /\ pokemon_cache' =
            insert(pokemon_cache, pokemon_name_to_search[r],
                   IF contains_key(pokemon_cache, pokemon_name_to_search[r])
                   THEN [value EXCEPT !.description = <<>>]
                   ELSE value)
    /\ inserts' = [inserts EXCEPT ![r].pokemon = @ + 1]
    /\ reply' = [reply EXCEPT ![r] = json_reply(StatusOK, value)]
    /\ pc' = [pc EXCEPT ![r] = "done"]
    /\ UNCHANGED <<translation_cache, lock_translation, pokemon, calls, style>>

\* Faulty variant: get_pokemon also stores the description in the
\* translation cache.
gp_insert_both(r, value) ==
    /\ lock_pokemon \subseteq {r}
    /\ lock_pokemon' = drop(lock(lock_pokemon, r), r)
    /\ pokemon_cache' = insert(pokemon_cache, pokemon_name_to_search[r], value)
    /\ translation_cache' = insert(translation_cache, pokemon_name_to_search[r],
                                   value.description)
    /\ inserts' = [inserts EXCEPT ![r].pokemon = @ + 1]
    /\ reply' = [reply EXCEPT ![r] = json_reply(StatusOK, value)]
    /\ pc' = [pc EXCEPT ![r] = "done"]
    /\ UNCHANGED <<lock_translation, pokemon, calls, style>>

\* The fetched value is inserted under the cache's mutex and replied.
gp_insert(r, value) ==
    /\ lock_pokemon \subseteq {r}
    /\ lock_pokemon' = drop(lock(lock_pokemon, r), r)
    /\ pokemon_cache' = insert(pokemon_cache, pokemon_name_to_search[r], value)
    /\ inserts' = [inserts EXCEPT ![r].pokemon = @ + 1]
    /\ reply' = [reply EXCEPT ![r] = json_reply(StatusOK, value)]
    /\ pc' = [pc EXCEPT ![r] = "done"]
    /\ UNCHANGED <<translation_cache, lock_translation, pokemon, calls, style>>

\* fetch_pokemon_from_api(..).await comes back.
gp_fetch(r) ==
    /\ pc[r] = "gp_fetch"
    /\ \E outcome \in PokeApiOutcomes(pokemon_name_to_search[r]) :
          LET res == fetch_pokemon_from_api(outcome) IN
          /\ answers' = [answers EXCEPT ![r].profile = outcome.kind]
          /\ IF res.tag = "Panic" THEN panic(r)
             ELSE IF res.tag = "Err" THEN gp_not_found(r)
             ELSE gp_insert(r, res.value)
    /\ UNCHANGED <<handler, pokemon_name_to_search, history>>

\* ------------------------------------------------- get_translated_pokemon

\* Faulty variant: with the pokemon in hand the handler calls get_translation
\* at once, before looking in the translation cache.
gt_hit_eager(r, pokemon_data) ==
    LET p == unwrap(pokemon_data) IN
    /\ pokemon' = [pokemon EXCEPT ![r] = Some(p)]
    /\ style' = [style EXCEPT ![r] =
            Some(get_translation_style(value_to_string(p.habitat), p.is_legendary))]
    /\ calls' = [calls EXCEPT ![r].translation = @ + 1]
    /\ pc' = [pc EXCEPT ![r] = "gt_translate"]
    /\ UNCHANGED <<cachevars, reply, inserts>>

\* pokemon_data.is_some(): the handler's pokemon is the value returned by
\* get_pokemon_from_cache.
gt_hit(r, pokemon_data) ==
    /\ pokemon' = [pokemon EXCEPT ![r] = Some(unwrap(pokemon_data))]
    /\ pc' = [pc EXCEPT ![r] = "gt_tcheck"]
    /\ UNCHANGED <<cachevars, reply, calls, inserts, style>>

\* pokemon_data is None: call fetch_pokemon_from_api and await it.
gt_miss(r) ==
    /\ calls' = [calls EXCEPT ![r].profile = @ + 1]
    /\ pc' = [pc EXCEPT ![r] = "gt_fetch"]
    /\ UNCHANGED <<cachevars, pokemon, reply, inserts, style>>

\* get_pokemon_from_cache, under the cache's mutex.
gt_check(r) ==
    LET pokemon_data ==
            get_pokemon_from_cache(pokemon_name_to_search[r], pokemon_cache) IN
    /\ pc[r] = "gt_check"
    /\ lock_pokemon \subseteq {r}
    /\ lock_pokemon' = drop(lock(lock_pokemon, r), r)
    /\ IF is_some(pokemon_data)
       THEN gt_hit(r, pokemon_data)
       ELSE gt_miss(r)
    /\ UNCHANGED <<lock_translation, handler, pokemon_name_to_search, answers,
                   history>>

\* pokemon_result.is_err(): reply 404.
gt_not_found(r) ==
    /\ reply' = [reply EXCEPT ![r] =
            json_reply(StatusNotFound, [error |-> "Pokemon not found"])]
    /\ pc' = [pc EXCEPT ![r] = "done"]
    /\ UNCHANGED <<cachevars, lockvars, pokemon, calls, inserts, style>>

\* Faulty variant: the fetched value becomes the handler's pokemon and is
\* not inserted.
gt_insert_skipped(r, value) ==
    /\ lock_pokemon \subseteq {r}
    /\ lock_pokemon' = drop(lock(lock_pokemon, r), r)
    /\ pokemon' = [pokemon EXCEPT ![r] = Some(value)]
    /\ pc' = [pc EXCEPT ![r] = "gt_tcheck"]
    /\ UNCHANGED <<cachevars, lock_translation, reply, calls, inserts, style>>

\* The fetched value is inserted under the cache's mutex and becomes the
\* handler's pokemon.
gt_insert(r, value) ==
    /\ lock_pokemon \subseteq {r}
    /\ lock_pokemon' = drop(lock(lock_pokemon, r), r)
    /\ pokemon_cache' = insert(pokemon_cache, pokemon_name_to_search[r], value)
    /\ inserts' = [inserts EXCEPT ![r].pokemon = @ + 1]
    /\ pokemon' = [pokemon EXCEPT ![r] = Some(value)]
    /\ pc' = [pc EXCEPT ![r] = "gt_tcheck"]
    /\ UNCHANGED <<translation_cache, lock_translation, reply, calls, style>>

\* fetch_pokemon_from_api(..).await comes back.
gt_fetch(r) ==
    /\ pc[r] = "gt_fetch"
    /\ \E outcome \in PokeApiOutcomes(pokemon_name_to_search[r]) :
          LET pokemon_result == fetch_pokemon_from_api(outcome) IN
          /\ answers' = [answers EXCEPT ![r].profile = outcome.kind]
          /\ IF pokemon_result.tag = "Panic" THEN panic(r)
             ELSE IF pokemon_result.tag = "Err" THEN gt_not_found(r)
             ELSE gt_insert(r, pokemon_result.value)
    /\ UNCHANGED <<handler, pokemon_name_to_search, history>>

\* translation_in_cache.is_some(): the cached text replaces the description
\* of the handler's pokemon, which is the reply.
gt_translation_hit(r, translation_in_cache) ==
    LET translated == set_description(unwrap(pokemon[r]),
                                      unwrap(translation_in_cache)) IN
    /\ pokemon' = [pokemon EXCEPT ![r] = Some(translated)]
    /\ reply' = [reply EXCEPT ![r] = json_reply(StatusOK, translated)]
    /\ pc' = [pc EXCEPT ![r] = "done"]
    /\ UNCHANGED <<cachevars, calls, inserts, style>>

\* translation_in_cache is None: call get_translation with the description,
\* the habitat's to_string() and the flag of the handler's pokemon, and
\* await it.
gt_translation_miss(r) ==
    LET p == unwrap(pokemon[r]) IN
    /\ style' = [style EXCEPT ![r] =
            Some(get_translation_style(value_to_string(p.habitat), p.is_legendary))]
    /\ calls' = [calls EXCEPT ![r].translation = @ + 1]
    /\ pc' = [pc EXCEPT ![r] = "gt_translate"]
    /\ UNCHANGED <<cachevars, pokemon, reply, inserts>>

\* get_translation_from_cache, under the cache's mutex.
gt_tcheck(r) ==
    LET translation_in_cache ==
            get_translation_from_cache(pokemon_name_to_search[r], translation_cache) IN
    /\ pc[r] = "gt_tcheck"
    /\ lock_translation \subseteq {r}
    /\ lock_translation' = drop(lock(lock_translation, r), r)
    /\ IF is_some(translation_in_cache)
       THEN gt_translation_hit(r, translation_in_cache)
       ELSE gt_translation_miss(r)
    /\ UNCHANGED <<lock_pokemon, handler, pokemon_name_to_search, answers,
                   history>>

\* Faulty variant: on a failed translation the untranslated description is cached
\* as the translation.
gt_translation_failed_cached(r) ==
    /\ translation_cache' = insert(translation_cache, pokemon_name_to_search[r],
                                   unwrap(pokemon[r]).description)
    /\ inserts' = [inserts EXCEPT ![r].translation = @ + 1]
    /\ reply' = [reply EXCEPT ![r] =
            json_reply(StatusTooManyRequests, [error |-> "Translation failed"])]
    /\ pc' = [pc EXCEPT ![r] = "done"]
    /\ UNCHANGED <<pokemon_cache, lockvars, pokemon, calls, style>>

\* Faulty variant: on a failed translation the untranslated pokemon is the reply.
gt_translation_failed_fallback(r) ==
    /\ reply' = [reply EXCEPT ![r] = json_reply(StatusOK, unwrap(pokemon[r]))]
    /\ pc' = [pc EXCEPT ![r] = "done"]
    /\ UNCHANGED <<cachevars, lockvars, pokemon, calls, inserts, style>>

\* translated_pokemon_description.is_err(): reply 429.
gt_translation_failed(r) ==
    /\ reply' = [reply EXCEPT ![r] =
            json_reply(StatusTooManyRequests, [error |-> "Translation failed"])]
    /\ pc' = [pc EXCEPT ![r] = "done"]
    /\ UNCHANGED <<cachevars, lockvars, pokemon, calls, inserts, style>>

\* Faulty variant: the handler's pokemon is the cache's own value, not a clone of
\* it, so the translated text is written into the pokemon cache too.
gt_translated_aliased(r, translated_pokemon_description) ==
    LET translated == set_description(unwrap(pokemon[r]),
                                      translated_pokemon_description) IN
    /\ pokemon' = [pokemon EXCEPT ![r] = Some(translated)]
    /\ lock_translation \subseteq {r}
    /\ lock_translation' = drop(lock(lock_translation, r), r)
    /\ pokemon_cache' = insert(pokemon_cache, pokemon_name_to_search[r], translated)
    /\ translation_cache' = insert(translation_cache, pokemon_name_to_search[r],
                                   translated_pokemon_description)
    /\ inserts' = [inserts EXCEPT ![r].translation = @ + 1]
    /\ reply' = [reply EXCEPT ![r] = json_reply(StatusOK, translated)]
    /\ pc' = [pc EXCEPT ![r] = "done"]
    /\ UNCHANGED <<lock_pokemon, calls, style>>

\* Faulty variant: the description the pokemon had before the splice is
\* what is inserted into the translation cache.
gt_translated_raw(r, translated_pokemon_description) ==
    LET translated == set_description(unwrap(pokemon[r]),
                                      translated_pokemon_description) IN
    /\ pokemon' = [pokemon EXCEPT ![r] = Some(translated)]
    /\ lock_translation \subseteq {r}
    /\ lock_translation' = drop(lock(lock_translation, r), r)
    /\ translation_cache' = insert(translation_cache, pokemon_name_to_search[r],
                                   unwrap(pokemon[r]).description)
    /\ inserts' = [inserts EXCEPT ![r].translation = @ + 1]
    /\ reply' = [reply EXCEPT ![r] = json_reply(StatusOK, translated)]
    /\ pc' = [pc EXCEPT ![r] = "done"]
    /\ UNCHANGED <<pokemon_cache, lock_pokemon, calls, style>>

\* The translated text replaces the description of the handler's pokemon,
\* is inserted under the translation cache's mutex, and the pokemon is the
\* reply.
gt_translated(r, translated_pokemon_description) ==
    LET translated == set_description(unwrap(pokemon[r]),
                                      translated_pokemon_description) IN
    /\ pokemon' = [pokemon EXCEPT ![r] = Some(translated)]
    /\ lock_translation \subseteq {r}
    /\ lock_translation' = drop(lock(lock_translation, r), r)
    /\ translation_cache' = insert(translation_cache, pokemon_name_to_search[r],
                                   translated_pokemon_description)
    /\ inserts' = [inserts EXCEPT ![r].translation = @ + 1]
    /\ reply' = [reply EXCEPT ![r] = json_reply(StatusOK, translated)]
    /\ pc' = [pc EXCEPT ![r] = "done"]
    /\ UNCHANGED <<pokemon_cache, lock_pokemon, calls, style>>

\* get_translation(..).await comes back.
gt_translate(r) ==
    LET p == unwrap(pokemon[r]) IN
    /\ pc[r] = "gt_translate"
    /\ \E outcome \in TranslationOutcomes :
          LET res == get_translation(p.description, value_to_string(p.habitat),
                                     p.is_legendary, outcome) IN
          /\ answers' = [answers EXCEPT ![r].translation = outcome]
          /\ IF res.tag = "Panic" THEN panic(r)
             ELSE IF res.tag = "Err" THEN gt_translation_failed(r)
             ELSE gt_translated(r, res.value)
    /\ UNCHANGED <<handler, pokemon_name_to_search, history>>

\* ------------------------------------------------------ the request ends

\* The task's locals as they are before a request.
Reset(r) ==
    /\ pc' = [pc EXCEPT ![r] = "idle"]
    /\ handler' = [handler EXCEPT ![r] = "none"]
    /\ pokemon_name_to_search' = [pokemon_name_to_search EXCEPT ![r] = ""]
    /\ pokemon' = [pokemon EXCEPT ![r] = None]
    /\ reply' = [reply EXCEPT ![r] = None]
    /\ calls' = [calls EXCEPT ![r] = NoCalls]
    /\ inserts' = [inserts EXCEPT ![r] = NoInserts]
    /\ style' = [style EXCEPT ![r] = None]
    /\ answers' = [answers EXCEPT ![r] = NoAnswers]

\* The reply is written to the connection and the task is free again.
Respond(r) ==
    /\ pc[r] = "done"
    /\ Reset(r)
    /\ UNCHANGED <<cachevars, lockvars, history>>

\* The panic has unwound the task: the connection is dropped without a
\* reply and the task is free again.
Abort(r) ==
    /\ pc[r] = "panicked"
    /\ Reset(r)
    /\ UNCHANGED <<cachevars, lockvars, history>>

\* A step of a handler.
Step(r) ==
    \/ gp_check(r) \/ gp_fetch(r)
    \/ gt_check(r) \/ gt_fetch(r) \/ gt_tcheck(r) \/ gt_translate(r)

\* The server under concurrent requests.
Next ==
    \E r \in Reqs :
        \/ \E h \in Handlers, name \in ConcurrentNames : Request(r, h, name)
        \/ Step(r)
        \/ Respond(r)
        \/ Abort(r)

Spec == Init /\ [][Next]_vars

\* The server under concurrent requests for the names in DescribedNames.
DescNext ==
    \E r \in Reqs :
        \/ \E h \in Handlers, name \in DescribedNames : Request(r, h, name)
        \/ Step(r)
        \/ Respond(r)
        \/ Abort(r)

DescSpec == Init /\ [][DescNext]_vars

\* ------------------------------------ the mutexes, one step per lock() call
\* Each critical section in two steps: lock() returns the guard, then the
\* lookup or insert runs and the guard is dropped.  The return of an awaited
\* upstream call is a step of its own, before the lock() of the insert.

\* cache.lock().unwrap() returns: the mutex a task asks for where it is.
acquire(r) ==
    /\ \/ /\ pc[r] \in {"gp_check", "gt_check", "gp_insert", "gt_insert"}
          /\ lock_pokemon = {}
          /\ lock_pokemon' = lock(lock_pokemon, r)
          /\ UNCHANGED lock_translation
       \/ /\ pc[r] \in {"gt_tcheck", "gt_tinsert"}
          /\ lock_translation = {}
          /\ lock_translation' = lock(lock_translation, r)
          /\ UNCHANGED lock_pokemon
    /\ UNCHANGED <<cachevars, pc, handler, pokemon_name_to_search, pokemon, reply,
                   calls, inserts, style, answers, history>>

\* get_pokemon: fetch_pokemon_from_api(..).await comes back, up to
\* pokemon.unwrap().
gp_returned(r) ==
    /\ pc[r] = "gp_fetch"
    /\ \E outcome \in PokeApiOutcomes(pokemon_name_to_search[r]) :
          LET res == fetch_pokemon_from_api(outcome) IN
          /\ answers' = [answers EXCEPT ![r].profile = outcome.kind]
          /\ IF res.tag = "Panic" THEN panic(r)
             ELSE IF res.tag = "Err" THEN gp_not_found(r)
             ELSE /\ pokemon' = [pokemon EXCEPT ![r] = Some(res.value)]
                  /\ pc' = [pc EXCEPT ![r] = "gp_insert"]
                  /\ UNCHANGED <<cachevars, lockvars, reply, calls, inserts, style>>
    /\ UNCHANGED <<handler, pokemon_name_to_search, history>>

\* get_pokemon: the insert, with the guard held, and the reply.
gp_store(r) ==
    /\ pc[r] = "gp_insert"
    /\ r \in lock_pokemon
    /\ gp_insert(r, unwrap(pokemon[r]))
    /\ UNCHANGED <<handler, pokemon_name_to_search, answers, history>>

\* get_translated_pokemon: fetch_pokemon_from_api(..).await comes back, up
\* to pokemon_result.unwrap().
gt_returned(r) ==
    /\ pc[r] = "gt_fetch"
    /\ \E outcome \in PokeApiOutcomes(pokemon_name_to_search[r]) :
          LET pokemon_result == fetch_pokemon_from_api(outcome) IN
          /\ answers' = [answers EXCEPT ![r].profile = outcome.kind]
          /\ IF pokemon_result.tag = "Panic" THEN panic(r)
             ELSE IF pokemon_result.tag = "Err" THEN gt_not_found(r)
             ELSE /\ pokemon' = [pokemon EXCEPT ![r] = Some(pokemon_result.value)]
                  /\ pc' = [pc EXCEPT ![r] = "gt_insert"]
                  /\ UNCHANGED <<cachevars, lockvars, reply, calls, inserts, style>>
    /\ UNCHANGED <<handler, pokemon_name_to_search, history>>

\* get_translated_pokemon: the insert into cache_pokemon, with the guard held.
gt_store(r) ==
    /\ pc[r] = "gt_insert"
    /\ r \in lock_pokemon
    /\ gt_insert(r, unwrap(pokemon[r]))
    /\ UNCHANGED <<handler, pokemon_name_to_search, answers, history>>

\* get_translated_pokemon: get_translation(..).await comes back, up to the
\* splice of the translated text into the handler's pokemon.
gt_translation_returned(r) ==
    LET p == unwrap(pokemon[r]) IN
    /\ pc[r] = "gt_translate"
    /\ \E outcome \in TranslationOutcomes :
          LET res == get_translation(p.description, value_to_string(p.habitat),
                                     p.is_legendary, outcome) IN
          /\ answers' = [answers EXCEPT ![r].translation = outcome]
          /\ IF res.tag = "Panic" THEN panic(r)
             ELSE IF res.tag = "Err" THEN gt_translation_failed(r)
             ELSE /\ pokemon' = [pokemon EXCEPT ![r] =
                                    Some(set_description(p, res.value))]
                  /\ pc' = [pc EXCEPT ![r] = "gt_tinsert"]
                  /\ UNCHANGED <<cachevars, lockvars, reply, calls, inserts, style>>
    /\ UNCHANGED <<handler, pokemon_name_to_search, history>>

\* get_translated_pokemon: the insert into cache_translation, with the guard
\* held, and the reply.
gt_tstore(r) ==
    /\ pc[r] = "gt_tinsert"
    /\ r \in lock_translation
    /\ gt_translated(r, unwrap(pokemon[r]).description)
    /\ UNCHANGED <<handler, pokemon_name_to_search, answers, history>>

\* A step of a handler that has the guard it needs, or needs none.
LockStep(r) ==
    \/ r \in lock_pokemon /\ gp_check(r)
    \/ gp_returned(r)
    \/ gp_store(r)
    \/ r \in lock_pokemon /\ gt_check(r)
    \/ gt_returned(r)
    \/ gt_store(r)
    \/ r \in lock_translation /\ gt_tcheck(r)
    \/ gt_translation_returned(r)
    \/ gt_tstore(r)

LockNext ==
    \E r \in Reqs :
        \/ \E h \in Handlers, name \in LockNames : Request(r, h, name)
        \/ acquire(r)
        \/ LockStep(r)
        \/ Respond(r)
        \/ Abort(r)

LockSpec == Init /\ [][LockNext]_vars

\* The scheduling: a task that can run is run, an awaited upstream call
\* returns, a reply or a panic ends the task, and a task that asks for a
\* mutex which is free again and again gets it.
LockFairness ==
    \A r \in Reqs :
        /\ WF_vars(LockStep(r))
        /\ SF_vars(acquire(r))
        /\ WF_vars(Respond(r))
        /\ WF_vars(Abort(r))

FairLockSpec == LockSpec /\ LockFairness

\* ------------------------------------------- one client, one call at a time

\* The client sends its next request once the previous one has ended.
SeqRequest(r, h, name) ==
    /\ \A q \in Reqs : pc[q] = "idle"
    /\ Request(r, h, name)

\* What the client notes of a reply: per name, the body of the last 200 of
\* each handler, whether the last request was answered 404, and whether the
\* last get_translated_pokemon request was answered 429.
Note(r) ==
    LET h == handler[r]
        status == IF pc[r] = "done" THEN unwrap(reply[r]).status ELSE 0
        old == history[pokemon_name_to_search[r]]
    IN  [get_pokemon |->
            IF h = "get_pokemon" /\ status = StatusOK
            THEN Some(unwrap(reply[r]).body) ELSE old.get_pokemon,
         get_translated_pokemon |->
            IF h = "get_translated_pokemon" /\ status = StatusOK
            THEN Some(unwrap(reply[r]).body) ELSE old.get_translated_pokemon,
         not_found |-> status = StatusNotFound,
         rate_limited |->
            IF h = "get_translated_pokemon"
            THEN status = StatusTooManyRequests ELSE old.rate_limited]

SeqRespond(r) ==
    /\ pc[r] = "done"
    /\ Reset(r)
    /\ history' = [history EXCEPT ![pokemon_name_to_search[r]] = Note(r)]
    /\ UNCHANGED <<cachevars, lockvars>>

SeqAbort(r) ==
    /\ pc[r] = "panicked"
    /\ Reset(r)
    /\ history' = [history EXCEPT ![pokemon_name_to_search[r]] = Note(r)]
    /\ UNCHANGED <<cachevars, lockvars>>

SeqNext ==
    \E r \in Reqs :
        \/ \E h \in Handlers, name \in Names : SeqRequest(r, h, name)
        \/ Step(r)
        \/ SeqRespond(r)
        \/ SeqAbort(r)

SeqSpec == Init /\ [][SeqNext]_vars

\* ================================================================ claims

NotFoundReply == [status |-> StatusNotFound, body |-> [error |-> "Pokemon not found"]]
TranslationFailedReply ==
    [status |-> StatusTooManyRequests, body |-> [error |-> "Translation failed"]]

\* The profile PokeAPI's data for a name yields.
Derived(n) == fetch_pokemon_from_api([kind |-> "found", data |-> Pokedex[n]]).value

\* The text a successful call to the service of a style returns.
UpstreamTranslation(st, text) ==
    IF st = "yoda"
    THEN fetch_yoda_translation_from_api(text, "translated").value
    ELSE fetch_shakespeare_translation_from_api(text, "translated").value

Active(r) == pc[r] # "idle"
Translating(r) == Active(r) /\ handler[r] = "get_translated_pokemon"
Getting(r) == Active(r) /\ handler[r] = "get_pokemon"

\* C1: a get_pokemon request for a name that is in the pokemon cache replies
\* 200 with the cached value and makes no call to PokeAPI; so of two
\* successive get_pokemon requests for a name the second replies what the
\* first replied and makes no call, the first having made at most one.
C1_CachedProfileServedFromCache ==
    \A r \in Reqs :
        (Getting(r) /\ pc[r] # "gp_check") =>
            LET n == pokemon_name_to_search[r] IN
            /\ calls[r].profile <= 1
            /\ (n \in DOMAIN pokemon_cache /\ inserts[r].pokemon = 0) =>
                    /\ pc[r] = "done"
                    /\ calls[r].profile = 0
                    /\ unwrap(reply[r]) = [status |-> StatusOK, body |-> pokemon_cache[n]]
            /\ is_some(history[n].get_pokemon) =>
                    /\ pc[r] = "done"
                    /\ calls[r].profile = 0
                    /\ unwrap(reply[r]) =
                            [status |-> StatusOK, body |-> unwrap(history[n].get_pokemon)]

\* C1 witness: a second get_pokemon request for a name has been answered from
\* the cache.
C1_Witness ==
    \E r \in Reqs :
        /\ Getting(r) /\ pc[r] = "done"
        /\ is_some(history[pokemon_name_to_search[r]].get_pokemon)
        /\ unwrap(reply[r]).status = StatusOK
        /\ calls[r].profile = 0

\* C2 (the claim as stated): the translation service a request calls is Yoda
\* if the habitat of its pokemon is "cave" or the pokemon is legendary, and
\* Shakespeare otherwise.
C2_StyleByHabitatAndLegendary ==
    \A r \in Reqs :
        (Translating(r) /\ is_some(style[r])) =>
            LET p == unwrap(pokemon[r]) IN
            unwrap(style[r]) =
                IF p.habitat = "cave" \/ p.is_legendary THEN "yoda" ELSE "shakespeare"

\* C3: when PokeAPI's pokemon lookup fails, the request replies 404 with
\* {"error":"Pokemon not found"}, has inserted nothing, has made no
\* translation call, and leaves the name in neither cache; the request for
\* the name that follows a 404 calls PokeAPI again.
C3_NotFoundNotCached ==
    \A r \in Reqs :
        Active(r) =>
            LET n == pokemon_name_to_search[r] IN
            /\ answers[r].profile = "get_by_name_err" =>
                    /\ pc[r] = "done"
                    /\ unwrap(reply[r]) = NotFoundReply
                    /\ inserts[r] = NoInserts
                    /\ calls[r].translation = 0
                    /\ n \notin DOMAIN pokemon_cache
                    /\ n \notin DOMAIN translation_cache
            /\ (history[n].not_found /\ pc[r] \notin {"gp_check", "gt_check"}) =>
                    calls[r].profile = 1

\* C3 witness: the request after a 404 for a name has called PokeAPI again,
\* from get_translated_pokemon, and got the same failure.
C3_Witness ==
    \E r \in Reqs :
        /\ Translating(r) /\ pc[r] = "done"
        /\ history[pokemon_name_to_search[r]].not_found
        /\ answers[r].profile = "get_by_name_err"
        /\ unwrap(reply[r]) = NotFoundReply

\* C4: when the translation service answers 429, the request replies 429,
\* has inserted nothing into the translation cache, and the name is not in
\* the translation cache; the get_translated_pokemon request for the name
\* that follows a 429 reply calls the translation service again.
C4_RateLimitedNotCached ==
    \A r \in Reqs :
        Translating(r) =>
            LET n == pokemon_name_to_search[r] IN
            /\ answers[r].translation = "rate_limited" =>
                    /\ pc[r] = "done"
                    /\ unwrap(reply[r]) = TranslationFailedReply
                    /\ inserts[r].translation = 0
                    /\ n \notin DOMAIN translation_cache
            /\ (history[n].rate_limited /\ pc[r] \notin {"gt_check", "gt_tcheck"}) =>
                    calls[r].translation = 1

\* C4 witness: the request after a 429 reply for a name has called the
\* translation service again and was rate-limited again.
C4_Witness ==
    \E r \in Reqs :
        /\ Translating(r) /\ pc[r] = "done"
        /\ history[pokemon_name_to_search[r]].rate_limited
        /\ answers[r].translation = "rate_limited"
        /\ calls[r].translation = 1

\* C5 (the claim as stated): a get_translated_pokemon request that ends with
\* the 429 reply carries no pokemon and has inserted into neither cache.
C5_NothingCachedOnFailure ==
    \A r \in Reqs :
        (Translating(r) /\ pc[r] = "done"
            /\ unwrap(reply[r]).status = StatusTooManyRequests) =>
            /\ unwrap(reply[r]) = TranslationFailedReply
            /\ inserts[r] = NoInserts

\* C5 (amended): a get_translated_pokemon request whose translation call is
\* rate-limited ends with the 429 reply; a request that ends with the 429
\* reply carries no pokemon and has inserted nothing into the translation
\* cache, and it has inserted the pokemon into the pokemon cache exactly when
\* it had to fetch it from PokeAPI: that entry is in the pokemon cache.
C5_OnlyTranslationUncached ==
    \A r \in Reqs :
        Translating(r) =>
            LET n == pokemon_name_to_search[r] IN
            /\ answers[r].translation = "rate_limited" =>
                    pc[r] = "done" /\ unwrap(reply[r]).status = StatusTooManyRequests
            /\ (pc[r] = "done" /\ unwrap(reply[r]).status = StatusTooManyRequests) =>
                    /\ unwrap(reply[r]) = TranslationFailedReply
                    /\ inserts[r].translation = 0
                    /\ inserts[r].pokemon = calls[r].profile
                    /\ calls[r].profile = 1 =>
                            /\ n \in DOMAIN pokemon_cache
                            /\ pokemon_cache[n] = unwrap(pokemon[r])

\* C5 witness: a request that found the name cold in the pokemon cache has
\* ended with the 429 reply, the fetched pokemon inserted.
C5_Witness ==
    \E r \in Reqs :
        /\ Translating(r) /\ pc[r] = "done"
        /\ unwrap(reply[r]) = TranslationFailedReply
        /\ answers[r].translation = "rate_limited"
        /\ calls[r].profile = 1
        /\ inserts[r].pokemon = 1

\* C6 (the claim as stated): when PokeAPI returns a species without habitat,
\* the request ends with the 404 reply and has inserted nothing into the
\* pokemon cache.
C6_MissingHabitatIsNotFound ==
    \A r \in Reqs :
        (Active(r) /\ answers[r].profile = "found"
            /\ ~is_some(Pokedex[pokemon_name_to_search[r]].habitat)) =>
            /\ pc[r] = "done"
            /\ unwrap(reply[r]) = NotFoundReply
            /\ inserts[r].pokemon = 0

\* C7 (the claim as stated): when the call to the translation service fails
\* in another way than by a 429 answer, the request ends with the 429 reply
\* and has inserted nothing into the translation cache.
C7_OtherFailuresAreRateLimited ==
    \A r \in Reqs :
        (Translating(r)
            /\ answers[r].translation \in {"send_error", "error_status", "not_json"}) =>
            /\ pc[r] = "done"
            /\ unwrap(reply[r]) = TranslationFailedReply
            /\ inserts[r].translation = 0

\* C8: the body of every 200 reply of get_translated_pokemon is the cached
\* pokemon of the name with only its description replaced, by the cached
\* translation; when the request called the translation service, that is
\* the text the service of the called style returned for the cached
\* pokemon's description.
C8_TranslatedReplyKeepsOtherFields ==
    \A r \in Reqs :
        (Translating(r) /\ pc[r] = "done" /\ unwrap(reply[r]).status = StatusOK) =>
            LET n == pokemon_name_to_search[r]
                body == unwrap(reply[r]).body
            IN
            /\ n \in DOMAIN pokemon_cache
            /\ n \in DOMAIN translation_cache
            /\ DOMAIN body = {"name", "description", "habitat", "is_legendary"}
            /\ body.name = pokemon_cache[n].name
            /\ body.habitat = pokemon_cache[n].habitat
            /\ body.is_legendary = pokemon_cache[n].is_legendary
            /\ body.description = translation_cache[n]
            /\ calls[r].translation = 1 =>
                    body.description =
                        UpstreamTranslation(unwrap(style[r]), pokemon_cache[n].description)

\* C8 witness: one request has been answered 200 from the translation cache
\* while another has been answered 200 with the text the service returned.
C8_Witness ==
    \E r, q \in Reqs :
        /\ Translating(r) /\ pc[r] = "done"
        /\ unwrap(reply[r]).status = StatusOK /\ calls[r].translation = 0
        /\ Translating(q) /\ pc[q] = "done"
        /\ unwrap(reply[q]).status = StatusOK /\ calls[q].translation = 1

\* C9: a get_translated_pokemon request makes at most one call to PokeAPI
\* and at most one call to the translation service; a request for a name
\* that both caches hold, and every request for a name after a 200 reply of
\* get_translated_pokemon for it, makes no upstream call and replies 200
\* with the body of that earlier reply.
C9_WarmTranslatedIsIdempotent ==
    \A r \in Reqs :
        Translating(r) =>
            LET n == pokemon_name_to_search[r] IN
            /\ calls[r].profile <= 1
            /\ calls[r].translation <= 1
            /\ (pc[r] \notin {"gt_check", "gt_tcheck"}
                    /\ n \in DOMAIN pokemon_cache /\ n \in DOMAIN translation_cache
                    /\ inserts[r] = NoInserts) =>
                    /\ pc[r] = "done"
                    /\ calls[r] = NoCalls
                    /\ unwrap(reply[r]).status = StatusOK
            /\ (pc[r] \notin {"gt_check", "gt_tcheck"}
                    /\ is_some(history[n].get_translated_pokemon)) =>
                    /\ pc[r] = "done"
                    /\ calls[r] = NoCalls
                    /\ unwrap(reply[r]) =
                            [status |-> StatusOK,
                             body |-> unwrap(history[n].get_translated_pokemon)]

\* C9 witness: a get_translated_pokemon request after a 200 reply for the
\* same name has been answered without any upstream call.
C9_Witness ==
    \E r \in Reqs :
        /\ Translating(r) /\ pc[r] = "done"
        /\ is_some(history[pokemon_name_to_search[r]].get_translated_pokemon)
        /\ calls[r] = NoCalls
        /\ unwrap(reply[r]).status = StatusOK

\* C10: the pokemon cache holds only untranslated pokemon, the ones derived
\* from PokeAPI's data; after a 200 reply of get_translated_pokemon for a
\* name, get_pokemon for it makes no call to PokeAPI and replies the
\* untranslated pokemon; after a 200 reply of get_pokemon for a name,
\* get_translated_pokemon for it makes no call to PokeAPI.
C10_SharedCacheHoldsUntranslated ==
    /\ \A n \in DOMAIN pokemon_cache : pokemon_cache[n] = Derived(n)
    /\ \A r \in Reqs :
        LET n == pokemon_name_to_search[r] IN
        /\ (Getting(r) /\ pc[r] # "gp_check"
                /\ is_some(history[n].get_translated_pokemon)) =>
                /\ pc[r] = "done"
                /\ calls[r].profile = 0
                /\ unwrap(reply[r]) = [status |-> StatusOK, body |-> Derived(n)]
                /\ unwrap(reply[r]).body.description
                        # unwrap(history[n].get_translated_pokemon).description
        /\ (Translating(r) /\ pc[r] # "gt_check" /\ is_some(history[n].get_pokemon)) =>
                calls[r].profile = 0

\* C10 witness: get_pokemon has been answered from the cache after a 200
\* reply of get_translated_pokemon for the same name.
C10_Witness ==
    \E r \in Reqs :
        /\ Getting(r) /\ pc[r] = "done"
        /\ is_some(history[pokemon_name_to_search[r]].get_translated_pokemon)
        /\ calls[r].profile = 0
        /\ unwrap(reply[r]).status = StatusOK

\* The task is suspended in an upstream call.
Suspended(r) == pc[r] \in {"gp_fetch", "gt_fetch", "gt_translate"}

\* C11: no task suspended in a call to PokeAPI or to the translation
\* service holds the mutex of either cache; a mutex has at most one holder,
\* and its holder is at a lookup or at an insert of that cache, which its
\* next step runs and ends with the guard dropped.
C11_NoLockAcrossUpstreamCall ==
    /\ Cardinality(lock_pokemon) <= 1
    /\ Cardinality(lock_translation) <= 1
    /\ \A r \in Reqs :
        /\ Suspended(r) => r \notin lock_pokemon \cup lock_translation
        /\ r \in lock_pokemon =>
                pc[r] \in {"gp_check", "gt_check", "gp_insert", "gt_insert"}
        /\ r \in lock_translation => pc[r] \in {"gt_tcheck", "gt_tinsert"}

\* C11 witness: one task holds the pokemon cache's mutex for its insert
\* while another is suspended in an upstream call.
C11_Witness ==
    \E r, q \in Reqs :
        /\ r \in lock_pokemon
        /\ pc[r] \in {"gp_insert", "gt_insert"}
        /\ Suspended(q)

\* What C12 asks of a step, for task r.
C12_Ordered(r) ==
    LET n == pokemon_name_to_search[r] IN
    /\ (pc'[r] = "gt_check" /\ pc[r] # "gt_check") => pc[r] = "idle"
    /\ (pc'[r] = "gt_fetch" /\ pc[r] # "gt_fetch") =>
            pc[r] = "gt_check" /\ n \notin DOMAIN pokemon_cache
    /\ (pc'[r] = "gt_tcheck" /\ pc[r] # "gt_tcheck") =>
            pc[r] \in {"gt_check", "gt_fetch"} /\ is_some(pokemon'[r])
    /\ (calls'[r].translation # calls[r].translation /\ pc[r] # "done"
            /\ pc[r] # "panicked") =>
            /\ pc[r] = "gt_tcheck"
            /\ n \notin DOMAIN translation_cache
            /\ calls'[r].translation = 1
            /\ pc'[r] = "gt_translate"
    /\ (pc'[r] = "gt_translate" /\ pc[r] # "gt_translate") =>
            calls'[r].translation = calls[r].translation + 1

\* C12: within a get_translated_pokemon request the lookup in the pokemon
\* cache is the first step, the lookup in the translation cache is reached
\* only from it (or from the fetch that follows its miss) with the pokemon
\* in hand, and the call to the translation service is made only by the
\* step that looks in the translation cache and finds the name missing.
C12_LookupsBeforeTranslationCall == [][\A r \in Reqs : C12_Ordered(r)]_vars

\* C12 witness: a request that missed in the pokemon cache, fetched, then
\* missed in the translation cache is suspended in the translation call.
C12_Witness ==
    \E r \in Reqs :
        /\ Translating(r) /\ pc[r] = "gt_translate"
        /\ calls[r] = [profile |-> 1, translation |-> 1]
        /\ inserts[r].pokemon = 1

\* Habitat arguments of get_translation: PokeAPI's habitat names, the empty
\* string, and a habitat as the handler passes it, in its JSON quotes.
Habitats ==
    {"cave", "forest", "grassland", "mountain", "rare", "rough-terrain", "sea",
     "urban", "waters-edge", "", value_to_string("cave")}

\* C13: for every habitat and flag get_translation calls one of the two
\* services, Yoda exactly when the habitat is the string "cave" or the flag
\* is true: ("cave", false) Yoda, ("forest", false) Shakespeare,
\* ("rare", true) Yoda; and the service a request has called is the one
\* get_translation chooses for the arguments the handler passed.
C13_SelectStyleByCaveOrLegendary ==
    /\ \A h \in Habitats, l \in BOOLEAN :
        /\ get_translation_style(h, l) \in {"yoda", "shakespeare"}
        /\ get_translation_style(h, l) = "yoda" <=> (h = "cave" \/ l)
        /\ get_translation(<<"a">>, h, l, "translated") =
                IF h = "cave" \/ l
                THEN fetch_yoda_translation_from_api(<<"a">>, "translated")
                ELSE fetch_shakespeare_translation_from_api(<<"a">>, "translated")
    /\ get_translation_style("cave", FALSE) = "yoda"
    /\ get_translation_style("forest", FALSE) = "shakespeare"
    /\ get_translation_style("rare", TRUE) = "yoda"
    /\ \A r \in Reqs :
        (Translating(r) /\ is_some(style[r])) =>
            LET p == unwrap(pokemon[r])
                passed == value_to_string(p.habitat)
            IN  unwrap(style[r]) =
                    IF passed = "cave" \/ p.is_legendary THEN "yoda" ELSE "shakespeare"

\* C13 witness: get_translation has chosen Yoda for a legendary pokemon whose
\* habitat is not "cave", and the translation came back.
C13_Witness ==
    \E r \in Reqs :
        /\ Translating(r) /\ pc[r] = "done"
        /\ style[r] = Some("yoda")
        /\ unwrap(pokemon[r]).habitat # "cave"
        /\ unwrap(reply[r]).status = StatusOK

\* The step leaves the map as it is or inserts one key into it, every other
\* entry kept.
OnlyInsert(cache, cache_after) ==
    /\ DOMAIN cache \subseteq DOMAIN cache_after
    /\ cache_after # cache =>
            \E k \in DOMAIN cache_after :
                cache_after = [x \in DOMAIN cache \cup {k} |->
                                    IF x = k THEN cache_after[k] ELSE cache[x]]

\* C14: no step removes a key from the pokemon cache or from the
\* translation cache; a step that changes a cache inserts one key into it
\* and keeps every other entry.
C14_NoEviction ==
    [][/\ OnlyInsert(pokemon_cache, pokemon_cache')
       /\ OnlyInsert(translation_cache, translation_cache')]_vars

\* C14 witness: both caches hold two names and a request has been answered
\* from the entries inserted by earlier requests.
C14_Witness ==
    /\ Cardinality(DOMAIN pokemon_cache) = 2
    /\ Cardinality(DOMAIN translation_cache) = 2
    /\ \E r \in Reqs :
        /\ Translating(r) /\ pc[r] = "done"
        /\ calls[r] = NoCalls
        /\ unwrap(reply[r]).status = StatusOK

\* The control characters of the texts.
ControlChars == {LF, FF, TAB, CR}

no_control_chars(text) == \A i \in 1..Len(text) : text[i] \notin ControlChars

\* C15 (the claim as stated): no description of a pokemon that is in the
\* pokemon cache or in a 200 reply of get_pokemon contains a control
\* character: line feed, form feed, tab or carriage return.
C15_NoControlCharacters ==
    /\ \A n \in DOMAIN pokemon_cache : no_control_chars(pokemon_cache[n].description)
    /\ \A r \in Reqs :
        (Getting(r) /\ pc[r] = "done" /\ unwrap(reply[r]).status = StatusOK) =>
            no_control_chars(unwrap(reply[r]).body.description)

\* Values to insert: the pokemon derived from PokeAPI's data, and their
\* descriptions as translation texts.
SampleValues == {Derived(n) : n \in {"pikachu", "zubat", "mewtwo"}}
SampleTexts == {v.description : v \in SampleValues}

\* In the caches as they are: a value inserted under a key is what the
\* lookup of the key returns next, and a key that is not in the map is
\* looked up as None.
RoundTrip ==
    \A k \in Names :
        /\ \A v \in SampleValues :
                get_pokemon_from_cache(k, insert(pokemon_cache, k, v)) = Some(v)
        /\ \A t \in SampleTexts :
                get_translation_from_cache(k, insert(translation_cache, k, t)) = Some(t)
        /\ k \notin DOMAIN pokemon_cache =>
                get_pokemon_from_cache(k, pokemon_cache) = None
        /\ k \notin DOMAIN translation_cache =>
                get_translation_from_cache(k, translation_cache) = None

\* A step of a task that is at a lookup leaves both caches as they are.
LookupKeepsCaches ==
    \A r \in Reqs :
        (pc[r] \in {"gp_check", "gt_check", "gt_tcheck"} /\ pc'[r] # pc[r]) =>
            UNCHANGED cachevars

\* C16: in every state, inserting a value under a key and looking the key
\* up returns Some of that value, equal field for field, for both caches;
\* looking up a key that was never inserted returns None; and the lookups
\* of the handlers leave the caches unchanged.
C16_CacheRoundTrip == []RoundTrip /\ [][LookupKeepsCaches]_vars

\* C16 witness: get_translated_pokemon has looked up a pokemon that the
\* request before it inserted, and holds the value that request replied.
C16_Witness ==
    \E r \in Reqs :
        /\ Translating(r) /\ pc[r] = "gt_tcheck"
        /\ calls[r].profile = 0
        /\ pokemon[r] = history[pokemon_name_to_search[r]].get_pokemon
        /\ pokemon[r] = Some(pokemon_cache[pokemon_name_to_search[r]])

\* Two requests for one name have both missed, both called upstream, both
\* inserted and both replied.
BothInserted(r, q, table) ==
    /\ r # q
    /\ pc[r] = "done" /\ pc[q] = "done"
    /\ pokemon_name_to_search[r] = pokemon_name_to_search[q]
    /\ inserts[r][table] = 1 /\ inserts[q][table] = 1

\* After the race the entry is the value of one of the two.
RaceLeavesOneValue ==
    \A r, q \in Reqs :
        LET n == pokemon_name_to_search[r] IN
        /\ (Getting(r) /\ Getting(q) /\ BothInserted(r, q, "pokemon")) =>
                /\ calls[r].profile = 1 /\ calls[q].profile = 1
                /\ n \in DOMAIN pokemon_cache
                /\ pokemon_cache[n] \in {unwrap(reply[r]).body, unwrap(reply[q]).body}
        /\ (Translating(r) /\ Translating(q) /\ BothInserted(r, q, "translation")) =>
                /\ calls[r].translation = 1 /\ calls[q].translation = 1
                /\ n \in DOMAIN translation_cache
                /\ translation_cache[n] \in {unwrap(reply[r]).body.description,
                                             unwrap(reply[q]).body.description}

\* A step changes, in either cache, only entries of names that a task
\* taking the step asked for.
OtherNamesKept ==
    /\ \A k \in DOMAIN pokemon_cache :
            (k \notin DOMAIN pokemon_cache' \/ pokemon_cache'[k] # pokemon_cache[k]) =>
                \E r \in Reqs : pc'[r] # pc[r] /\ pokemon_name_to_search[r] = k
    /\ \A k \in DOMAIN translation_cache :
            (k \notin DOMAIN translation_cache'
                \/ translation_cache'[k] # translation_cache[k]) =>
                \E r \in Reqs : pc'[r] # pc[r] /\ pokemon_name_to_search[r] = k
    /\ \A k \in DOMAIN pokemon_cache' \ DOMAIN pokemon_cache :
            \E r \in Reqs : pc'[r] # pc[r] /\ pokemon_name_to_search[r] = k
    /\ \A k \in DOMAIN translation_cache' \ DOMAIN translation_cache :
            \E r \in Reqs : pc'[r] # pc[r] /\ pokemon_name_to_search[r] = k

\* C17: when two concurrent requests for one name have both missed the
\* cache, both called upstream and both inserted, the cache holds for the
\* name the value one of the two inserted; and no step changes the entry of
\* a name other than the one its task asked for.
C17_ColdRaceLastWriterWins == []RaceLeavesOneValue /\ [][OtherNamesKept]_vars

\* C17 witness: two concurrent get_pokemon requests for one name have each
\* missed, each called PokeAPI and each inserted.
C17_Witness ==
    \E r, q \in Reqs :
        /\ Getting(r) /\ Getting(q) /\ BothInserted(r, q, "pokemon")
        /\ calls[r].profile = 1 /\ calls[q].profile = 1

\* C18: PokeAPI and the translation service answering the same for a name
\* every time they answer, under any interleaving of concurrent requests
\* the pokemon cached under a name is the one derived from PokeAPI's data
\* for the name, and the translation cached under a name is what a
\* translation service returns for the description of the pokemon cached
\* under the name.
C18_CachesCoherent ==
    /\ \A n \in DOMAIN pokemon_cache :
            pokemon_cache[n] =
                fetch_pokemon_from_api([kind |-> "found", data |-> Pokedex[n]]).value
    /\ \A n \in DOMAIN translation_cache :
            /\ n \in DOMAIN pokemon_cache
            /\ \E st \in {"yoda", "shakespeare"} :
                    translation_cache[n] =
                        UpstreamTranslation(st, pokemon_cache[n].description)

\* C18 witness: concurrent requests have filled the translation cache with
\* a Yoda text for one name and a Shakespeare text for another.
C18_Witness ==
    \E n, m \in DOMAIN translation_cache :
        /\ n \in DOMAIN pokemon_cache /\ m \in DOMAIN pokemon_cache
        /\ translation_cache[n] = UpstreamTranslation("yoda", pokemon_cache[n].description)
        /\ translation_cache[m] =
                UpstreamTranslation("shakespeare", pokemon_cache[m].description)
        /\ \E r, q \in Reqs : r # q /\ Active(r) /\ Active(q)

\* C19: under any interleaving of requests every key of the translation
\* cache is a key of the pokemon cache, and a request that has inserted a
\* translation has found or inserted the pokemon of the same name before.
C19_TranslationKeysHaveProfiles ==
    /\ DOMAIN translation_cache \subseteq DOMAIN pokemon_cache
    /\ \A r \in Reqs :
        (Active(r) /\ inserts[r].translation > 0) =>
            /\ is_some(pokemon[r])
            /\ pokemon_name_to_search[r] \in DOMAIN pokemon_cache
            /\ inserts[r].pokemon = calls[r].profile

\* C19 witness: a request that found the pokemon in the cache has inserted
\* its translation, and another that fetched the pokemon has too.
C19_Witness ==
    \E r, q \in Reqs :
        /\ Translating(r) /\ pc[r] = "done"
        /\ inserts[r] = [pokemon |-> 0, translation |-> 1]
        /\ Translating(q) /\ pc[q] = "done"
        /\ inserts[q] = [pokemon |-> 1, translation |-> 1]

\* C20 (the claim as stated): no task holds both mutexes at once, and, the
\* scheduling being fair and every upstream call returning, every request
\* is eventually answered with a reply.
C20_EveryRequestAnswered ==
    /\ [](lock_pokemon \cap lock_translation = {})
    /\ \A r \in Reqs : Active(r) ~> (pc[r] = "done" /\ is_some(reply[r]))

\* What a get_pokemon request that has ended has done: no translation call,
\* no insert into the translation cache, and one insert into the pokemon
\* cache if it fetched the pokemon and replied 200, none otherwise.
GetPokemonInsertsOnce ==
    \A r \in Reqs :
        (Getting(r) /\ pc[r] \in {"done", "panicked"}) =>
            /\ calls[r].translation = 0
            /\ inserts[r].translation = 0
            /\ inserts[r].pokemon =
                    IF pc[r] = "done" /\ unwrap(reply[r]).status = StatusOK
                            /\ calls[r].profile = 1
                    THEN 1 ELSE 0
            /\ (pc[r] = "done" /\ calls[r].profile = 0) =>
                    unwrap(reply[r]).status = StatusOK

\* What a step of a get_pokemon request changes: nothing of the translation
\* cache or its mutex, no entry of the pokemon cache under another name, and
\* the entry under its name only when the fetch came back with the pokemon,
\* which is then the entry and the reply.
GetPokemonFrame ==
    \A r \in Reqs :
        (handler[r] = "get_pokemon" /\ pc[r] \in {"gp_check", "gp_fetch"}
                /\ pc'[r] # pc[r]) =>
            LET n == pokemon_name_to_search[r] IN
            /\ translation_cache' = translation_cache
            /\ lock_translation' = lock_translation
            /\ DOMAIN pokemon_cache' \subseteq DOMAIN pokemon_cache \cup {n}
            /\ \A k \in DOMAIN pokemon_cache \ {n} :
                    k \in DOMAIN pokemon_cache' /\ pokemon_cache'[k] = pokemon_cache[k]
            /\ pc[r] = "gp_check" => (pokemon_cache' = pokemon_cache /\ inserts' = inserts)
            /\ (pokemon_cache' # pokemon_cache \/ inserts' # inserts) =>
                    /\ answers'[r].profile = "found"
                    /\ inserts'[r] = [pokemon |-> 1, translation |-> 0]
                    /\ n \in DOMAIN pokemon_cache'
                    /\ unwrap(reply'[r]) = [status |-> StatusOK, body |-> pokemon_cache'[n]]

\* C21: get_pokemon never modifies the translation cache, never modifies
\* the pokemon cache's entry of another name, inserts nothing on a cache hit
\* or on an error, and inserts exactly once, under its name, when the fetch
\* from PokeAPI succeeds.
C21_GetPokemonSingleInsert == []GetPokemonInsertsOnce /\ [][GetPokemonFrame]_vars

\* C21 witness: a get_pokemon request has fetched and inserted its pokemon
\* while the pokemon cache holds another name and the translation cache an
\* entry.
C21_Witness ==
    \E r \in Reqs :
        /\ Getting(r) /\ pc[r] = "done"
        /\ inserts[r] = [pokemon |-> 1, translation |-> 0]
        /\ Cardinality(DOMAIN pokemon_cache) = 2
        /\ DOMAIN translation_cache # {}

\* Longest list of flavor text entries tried.
MaxEntries == 3

\* Language tags of the entries tried: "en" and two that are not "en".
Languages == {"en", "ja", "EN"}

\* The lists of at most MaxEntries entries over Languages; the text of the
\* i-th entry is i characters long, so each entry of a list has its own text.
EntryLists ==
    UNION {{[i \in 1..k |-> [language |-> f[i], flavor_text |-> [j \in 1..i |-> "x"]]] :
                f \in [1..k -> Languages]} : k \in 0..MaxEntries}

\* The text of the entry of least index whose language is "en", the empty
\* text when there is none.
FirstEnglish(entries) ==
    LET en == {i \in 1..Len(entries) : entries[i].language = "en"} IN
    IF en = {} THEN <<>>
    ELSE entries[CHOOSE i \in en : \A j \in en : i <= j].flavor_text

\* C22: for every list of entries get_english_description is the text of the
\* first entry whose language is exactly "en", whatever comes before it,
\* and the empty text when no entry is; the description of every cached
\* pokemon is that text with line feeds and form feeds replaced; and a
\* species without English entry is derived, cached and replied with the
\* empty description.
C22_FirstEnglishDescription ==
    /\ \A entries \in EntryLists :
            get_english_description(entries) = FirstEnglish(entries)
    /\ \A n \in DOMAIN pokemon_cache :
            pokemon_cache[n].description =
                replace_char(replace_char(
                    FirstEnglish(Pokedex[n].flavor_text_entries), LF, SP), FF, SP)
    /\ \A r \in Reqs :
        (Active(r) /\ answers[r].profile = "found") =>
            LET n == pokemon_name_to_search[r] IN
            (\A i \in 1..Len(Pokedex[n].flavor_text_entries) :
                    Pokedex[n].flavor_text_entries[i].language # "en") =>
                /\ pc[r] # "panicked" \/ answers[r].translation # "none"
                /\ n \in DOMAIN pokemon_cache
                /\ pokemon_cache[n].description = <<>>
                /\ Getting(r) =>
                        /\ pc[r] = "done"
                        /\ unwrap(reply[r]).status = StatusOK
                        /\ unwrap(reply[r]).body.description = <<>>

\* C22 witness: the species without English entry, its entries in other
\* languages, has been fetched, cached and replied with the empty
\* description.
C22_Witness ==
    \E r \in Reqs :
        /\ Getting(r) /\ pc[r] = "done"
        /\ pokemon_name_to_search[r] = "ditto"
        /\ answers[r].profile = "found"
        /\ unwrap(reply[r]) = [status |-> StatusOK, body |-> pokemon_cache["ditto"]]
        /\ pokemon_cache["ditto"].description = <<>>
        /\ Pokedex["ditto"].flavor_text_entries # <<>>

====
